---- MODULE Spec2Model ----
(***************************************************************************)
(* State-machine model of the SIWP identity provider (src/src/index.tsx,   *)
(* the IdentityProvider of lines 529-1009, with its storage adapter in     *)
(* src/src/state.type.ts and its authority client in src/unnamed/part_004).*)
(*                                                                         *)
(* JavaScript runs one task at a time: a handler runs from its call, or    *)
(* from the settlement of the promise it awaits, up to its next await on a *)
(* collaborator (the authority, the authenticator).  Each such stretch is  *)
(* one action.  React keeps the committed state (`state`) apart from the   *)
(* snapshot the rendered closures read (`view`); login, loginWithSessionKey*)
(* and getDelegation read `state.xxx` from the closure, i.e. from `view`,  *)
(* while updateState queues functional updates against the committed state.*)
(* Of the snapshot only the two fields a handler reads are kept:           *)
(* state.anonymousActor and state.prepareLoginStatus.                      *)
(***************************************************************************)
EXTENDS Integers, Sequences, FiniteSets, TLC

VARIABLES
    state,                              \* committed React state (useState)
    view,                               \* what the rendered closures read of state
    storage,                            \* localStorage[SIWP_STORAGE_KEY]
    loginPromiseHandlers,               \* useRef: resolve/reject pair of login
    loginWithPublicKeyPromiseHandlers,  \* useRef: pair of loginWithSessionKey
    proc,                               \* per call: position and locals
    promise,                            \* per call: the promise it returned
    requests,                           \* requests in flight to authority/authenticator
    mounted,                            \* which mount effects have run
    props,                              \* IdentityProvider props
    lastCall,                           \* the call made by the last step (ClearCall for
                                        \* clear()), 0 if it made none
    adapterCall,                        \* the last direct call of the storage adapter
    clientCall                          \* the last direct call of the authority client

vars == <<state, view, storage, loginPromiseHandlers,
          loginWithPublicKeyPromiseHandlers, proc, promise, requests,
          mounted, props, lastCall, adapterCall, clientCall>>

----------------------------------------------------------------------------
(* Bounds *)

\* Number of API calls (login, loginWithSessionKey, getDelegation) in a run.
MaxCalls == 2

Calls == 1..MaxCalls

\* What lastCall holds after clear(), which is no numbered call.
ClearCall == MaxCalls + 1

----------------------------------------------------------------------------
(* Values *)

\* An optional value: <<>> is undefined/null, <<x>> is x.
None == <<>>
Some(x) == <<x>>
IsSome(o) == o # <<>>
The(o) == o[1]

\* Identifiers the authority may resolve, and the one a caller passes.
Uids == {"alice", "bob"}
CallerUids == {"alice"}

\* The AuthState token the authority hands out with the challenge of call c:
\* a fresh one per prepare request.  NoAuthState is the empty string.
NoAuthState == None
AuthStateOf(c) == Some(c)

\* Messages of the errors the provider creates itself.
MsgNotInitialized == "Hook not initialized properly. Make sure to supply all required props to the IdentityProvider."
MsgConcurrent == "Don't call login while prepareLogin is running."
MsgInvalidAuthResponse == "Invalid authentication response"
MsgInvalidPrepare == "Invalid prepare response"
MsgWebauthnFail == "Webauthn fail"
MsgUnableToLogin == "Unable to login."
MsgCustomKeyLogin == "Login error with customSessionPublicKey."
MsgUnableToGetIdentity == "Unable to get identity."
MsgNoStoredIdentity == "No stored identity found."
MsgStoredInvalid == "Stored state is invalid."
\* Messages that come from outside: a transport failure, an Err envelope.
MsgTransport == "transport failure"
\* The message of the error Ed25519KeyIdentity.fromJSON / DelegationChain.fromJSON
\* throw on material they cannot read.
MsgDeserialization == "deserialization error"
ErrStrings == {"invalid assertion"}

\* The assertion string the authenticator returns (JSON.stringify(asseResp)).
Assertion == "asrt1"

\* Expiration and root key the authority returns in BindingDetails.
Expirations == {1000}
RootKeys == {"rk1"}

\* Session keypairs.  Ed25519KeyIdentity.generate() makes a fresh one in each
\* attempt: the one of call c carries c.  A caller of loginWithSessionKey /
\* getDelegation brings its own.
Ed25519KeyIdentity(k) == [keyId |-> k]
\* generate as it would be if one keypair were made once and handed to every attempt.
generate_Cached(c) == Ed25519KeyIdentity(1)
generate(c) == Ed25519KeyIdentity(c)
getPublicKey(sessionIdentity) == [der |-> sessionIdentity.keyId]
ExternalSessionIdentity == Ed25519KeyIdentity(101)
StoredSessionIdentity == Ed25519KeyIdentity(50)
\* A public key that belongs to none of the session keypairs.
TamperedPublicKey == [der |-> 0]

----------------------------------------------------------------------------
(* State record (src/unnamed/part_002 State) and its update function *)

InitialState ==
    [ anonymousActor     |-> None,
      identityActor      |-> None,
      isInitializing     |-> TRUE,
      prepareLoginStatus |-> "idle",
      prepareLoginError  |-> None,
      loginStatus        |-> "idle",
      loginError         |-> None,
      identity           |-> None,
      identityId         |-> None,
      delegationChain    |-> None ]

\* updateState as it would be if only one of the named fields were applied.
updateState_OneField(s, newState) ==
    LET k == CHOOSE f \in DOMAIN newState : TRUE IN
    [s EXCEPT ![k] = newState[k]]

\* updateState as it would be if it merged into the state object of the first
\* render (`state = { ...state, ...newState }` in a mount effect's closure).
updateState_FromRenderState(s, newState) ==
    [k \in DOMAIN s |-> IF k \in DOMAIN newState THEN newState[k] ELSE InitialState[k]]

\* setState(prev => ({...prev, ...newState})): a shallow merge.
updateState(s, newState) ==
    [k \in DOMAIN s |-> IF k \in DOMAIN newState THEN newState[k] ELSE s[k]]

----------------------------------------------------------------------------
(* Delegation codec *)

\* createDelegationChain(signedDelegation, user_canister_pubkey): wraps the one
\* signed delegation into a chain rooted at the given public key.
createDelegationChain(signedDelegation, publicKey) ==
    [delegations |-> <<signedDelegation>>, publicKey |-> publicKey]

\* DelegationIdentity.fromDelegation(sessionIdentity, delegationChain)
fromDelegation(sessionIdentity, delegationChain) ==
    [sessionIdentity |-> sessionIdentity, delegationChain |-> delegationChain]

\* The signed delegation the authority returns for a session public key.
SignedDelegation(pubkey, expiration) ==
    [delegation |-> [pubkey |-> pubkey, expiration |-> expiration, targets |-> None],
     signature  |-> "sig"]

----------------------------------------------------------------------------
(* Persistence adapter (src/src/state.type.ts lines 29-78) *)

\* Serialised forms: byte strings become hex strings, bigints hex numbers.
toHex(x) == [hex |-> x]
fromHex(h) == h.hex
\* A string that is no hex string.
NotHex == [hex |-> "zz"]

keyToJSON(sessionIdentity) == <<toHex(getPublicKey(sessionIdentity).der), toHex(sessionIdentity.keyId)>>
keyFromJSON(j) == Ed25519KeyIdentity(fromHex(j[2]))

delegationToJSON(sd) ==
    [delegation |-> [pubkey |-> toHex(sd.delegation.pubkey.der),
                     expiration |-> toHex(sd.delegation.expiration)],
     signature  |-> toHex(sd.signature)]
delegationFromJSON(j) ==
    [delegation |-> [pubkey |-> [der |-> fromHex(j.delegation.pubkey)],
                     expiration |-> fromHex(j.delegation.expiration),
                     targets |-> None],
     signature  |-> fromHex(j.signature)]

chainToJSON(chain) ==
    [delegations |-> [i \in DOMAIN chain.delegations |-> delegationToJSON(chain.delegations[i])],
     publicKey   |-> toHex(chain.publicKey)]
\* chainFromJSON as it would be if it lost the delegations of the chain.
chainFromJSON_Truncated(j) ==
    [delegations |-> <<>>, publicKey |-> fromHex(j.publicKey)]
chainFromJSON(j) ==
    [delegations |-> [i \in DOMAIN j.delegations |-> delegationFromJSON(j.delegations[i])],
     publicKey   |-> fromHex(j.publicKey)]

\* saveIdentity: the record written under SIWP_STORAGE_KEY.
saveIdentity(uid, sessionIdentity, delegationChain) ==
    Some([ uid             |-> Some(uid),
           sessionIdentity |-> Some(keyToJSON(sessionIdentity)),
           delegationChain |-> Some(chainToJSON(delegationChain)) ])

\* loadIdentity: [ok |-> TRUE, uid, identity, chain] or [ok |-> FALSE, error].
loadIdentity(stored) ==
    IF ~IsSome(stored)
    THEN [ok |-> FALSE, error |-> MsgNoStoredIdentity]
    ELSE LET s == The(stored) IN
         IF ~IsSome(s.uid) \/ The(s.uid) = "" \/ ~IsSome(s.sessionIdentity)
            \/ ~IsSome(s.delegationChain)
         THEN [ok |-> FALSE, error |-> MsgStoredInvalid]
         ELSE IF The(s.delegationChain).publicKey = NotHex
                 \/ Len(The(s.sessionIdentity)) # 2
         THEN [ok |-> FALSE, error |-> MsgDeserialization]
         ELSE LET d == chainFromJSON(The(s.delegationChain))
                  i == fromDelegation(keyFromJSON(The(s.sessionIdentity)), d)
              IN  [ok |-> TRUE, uid |-> The(s.uid), identity |-> i, chain |-> d]

\* clearIdentity as it would be if it wrote an empty record instead of removing it.
clearIdentity_WritesEmptyRecord ==
    Some([uid |-> None, sessionIdentity |-> None, delegationChain |-> None])

\* clearIdentity: localStorage.removeItem(SIWP_STORAGE_KEY)
clearIdentity == None

\* A direct call of the adapter: the function called, the one called before it,
\* the arguments of the last saveIdentity and what the last loadIdentity returned.
NoAdapterCall ==
    [ op |-> "none", prev |-> "none",
      uid |-> "", sessionIdentity |-> None, delegationChain |-> None,
      loaded |-> None ]

\* What localStorage may hold when the provider mounts.
StoredChain ==
    createDelegationChain(SignedDelegation(getPublicKey(StoredSessionIdentity), 1000), "rk1")
InitialStorages ==
    { None,
      saveIdentity("alice", StoredSessionIdentity, StoredChain),
      Some([ uid             |-> Some("alice"),
             sessionIdentity |-> Some(keyToJSON(StoredSessionIdentity)),
             delegationChain |-> None ]),
      Some([ uid             |-> Some("alice"),
             sessionIdentity |-> Some(<<toHex(getPublicKey(StoredSessionIdentity).der)>>),
             delegationChain |-> Some(chainToJSON(StoredChain)) ]),
      Some([ uid             |-> Some("alice"),
             sessionIdentity |-> Some(keyToJSON(StoredSessionIdentity)),
             delegationChain |-> Some([chainToJSON(StoredChain) EXCEPT !.publicKey = NotHex]) ]) }

----------------------------------------------------------------------------
(* Remote authority client (src/unnamed/part_004) *)

\* createAnonymousActor as it would be if the agent it builds ignored the
\* identity handed in httpAgentOptions.
createAnonymousActor_IgnoresIdentity(p, identity) ==
    IF ~p.configured THEN None ELSE Some([identity |-> None])

\* createAnonymousActor: undefined without idlFactory/canisterId, otherwise
\* an actor whose agent carries the given identity (none: anonymous).
createAnonymousActor(p, identity) ==
    IF ~p.configured THEN None ELSE Some([identity |-> identity])

\* A request as it leaves the client.
Request(c, method, username, webauthnResponse, authState, sessionPublicKey, expiration) ==
    [ call |-> c, method |-> method, username |-> username,
      webauthnResponse |-> webauthnResponse, authState |-> authState,
      sessionPublicKey |-> sessionPublicKey, expiration |-> expiration ]

\* callPrepareLogin, up to its first await (part_004 lines 52-59).
callPrepareLoginRequest(c, username) ==
    IF IsSome(username)
    THEN Request(c, "siwp_prepare_login_username", username, None, None, None, None)
    ELSE Request(c, "siwp_prepare_login", None, None, None, None, None)

\* callLogin, up to its await (part_004 lines 95-109): the endpoint is
\* chosen by `username === undefined && authenticationState`.
callLoginRequest(c, webauthnResponse, sessionPublicKey, authenticationState, username) ==
    IF ~IsSome(username) /\ authenticationState # NoAuthState
    THEN Request(c, "siwp_login", None, Some(webauthnResponse),
                 authenticationState, Some(sessionPublicKey), None)
    ELSE Request(c, "siwp_login_username", None, Some(webauthnResponse),
                 None, Some(sessionPublicKey), None)

\* callGetDelegation as it would be if it sent a key other than the one handed in.
callGetDelegationRequest_OtherKey(c, username, sessionPublicKey, expiration) ==
    Request(c, "siwp_get_delegation", Some(username), None, None,
            Some(TamperedPublicKey), Some(expiration))

\* callGetDelegation, up to its await (part_004 lines 130-138).
callGetDelegationRequest(c, username, sessionPublicKey, expiration) ==
    Request(c, "siwp_get_delegation", Some(username), None, None,
            Some(sessionPublicKey), Some(expiration))

\* The errors the client throws before it sends anything.
MsgInvalidActor == "Invalid actor"
MsgInvalidActorOrUsername == "Invalid actor or username"

\* A direct call of the client: the function called, the one called before
\* it, the requests the call sent to the authority and the message of the
\* error it threw before sending, if it did.
NoClientCall ==
    [ op |-> "none", prev |-> "none", anonymousActor |-> None, username |-> None,
      authenticationState |-> NoAuthState, sent |-> {}, error |-> "" ]

----------------------------------------------------------------------------
(* Promises and the single-slot handler refs *)

NoPromise == [status |-> "none", value |-> None, reason |-> ""]
PendingPromise == [status |-> "pending", value |-> None, reason |-> ""]

\* handlers.current?.resolve(value): settles the promise the slot's pair
\* belongs to; settling a settled promise does nothing.
resolveHandlers(p, handlers, value) ==
    IF IsSome(handlers) /\ p[The(handlers)].status = "pending"
    THEN [p EXCEPT ![The(handlers)] = [status |-> "resolved", value |-> Some(value), reason |-> ""]]
    ELSE p

\* handlers.current?.reject(new Error(message))
rejectHandlers(p, handlers, message) ==
    IF IsSome(handlers) /\ p[The(handlers)].status = "pending"
    THEN [p EXCEPT ![The(handlers)] = [status |-> "rejected", value |-> None, reason |-> message]]
    ELSE p

\* The slot rejectLoginWithError rejects through (index.tsx line 598).
rejectSlot(loginSlot, publicKeySlot) == loginSlot

\* rejectLoginWithError as it would be if a failure also logged the user out.
rejectLoginWithError_DropsIdentity(s, p, loginSlot, publicKeySlot, error, message) ==
    LET errorMessage == IF message # "" THEN message ELSE error IN
    [ state   |-> updateState(s, [loginStatus |-> "error", loginError |-> Some(errorMessage),
                                  identityId |-> None, identity |-> None,
                                  delegationChain |-> None, identityActor |-> None]),
      promise |-> rejectHandlers(p, rejectSlot(loginSlot, publicKeySlot), errorMessage) ]

\* rejectLoginWithError(error, message): errorMessage = message || e.message;
\* sets loginStatus/loginError and rejects through loginPromiseHandlers.
rejectLoginWithError(s, p, loginSlot, publicKeySlot, error, message) ==
    LET errorMessage == IF message # "" THEN message ELSE error IN
    [ state   |-> updateState(s, [loginStatus |-> "error", loginError |-> Some(errorMessage)]),
      promise |-> rejectHandlers(p, rejectSlot(loginSlot, publicKeySlot), errorMessage) ]

----------------------------------------------------------------------------
(* Calls in progress *)

NoProc ==
    [ kind |-> "none", pc |-> "idle", guard |-> "none", loginUid |-> None,
      prepareResponse |-> None, webauthnResponse |-> "", authenticationState |-> NoAuthState,
      sessionIdentity |-> None, sessionPublicKey |-> None, loginOkResponse |-> None ]

\* Calls are numbered in the order they are made.
NextCall(c) == proc[c].kind = "none" /\ \A d \in Calls : d < c => proc[d].kind # "none"

\* A call that has returned or whose async function has ended: its locals are gone.
Finished(c, pc) == [NoProc EXCEPT !.kind = proc[c].kind, !.pc = pc, !.guard = proc[c].guard]

\* The requests still in flight once call c's pending one has been answered.
Answered(c) == {r \in requests : r.call # c}

InFlight(c) == proc[c].pc \in {"prepare", "webauthn", "callLogin", "callGetDelegation"}
Terminated(c) == proc[c].pc \in {"done", "failed"}

\* The fields of the render's state object that the handlers read.
Snapshot(s) ==
    [anonymousActor |-> s.anonymousActor, prepareLoginStatus |-> s.prepareLoginStatus]

\* Both mount effects have run: they run in one flush after the first commit,
\* before any task in which a consumer calls the API or a response arrives.
Mounted == mounted.load /\ mounted.actor

----------------------------------------------------------------------------
(* Initial state *)

Init ==
    /\ state = InitialState
    /\ view = Snapshot(InitialState)
    /\ storage \in InitialStorages
    /\ loginPromiseHandlers = None
    /\ loginWithPublicKeyPromiseHandlers = None
    /\ proc = [c \in Calls |-> NoProc]
    /\ promise = [c \in Calls |-> NoPromise]
    /\ requests = {}
    /\ mounted = [load |-> FALSE, actor |-> FALSE]
    /\ props \in [configured : BOOLEAN]
    /\ lastCall = 0
    /\ adapterCall = NoAdapterCall
    /\ clientCall = NoClientCall

----------------------------------------------------------------------------
(* Mount effects, render, clear *)

\* The catch block of the load effect as it would be if it surfaced the error.
loadFailed_Surfaced(s, error) ==
    updateState(s, [isInitializing |-> FALSE, loginStatus |-> "error",
                    loginError |-> Some(error)])

\* The catch block of the load effect (index.tsx lines 961-968): the error is
\* logged, nothing else.
loadFailed(s, error) == updateState(s, [isInitializing |-> FALSE])

\* useEffect(() => { loadIdentity ... }, []) (index.tsx lines 945-969)
LoadIdentityEffect ==
    /\ ~mounted.load
    /\ lastCall' = 0
    /\ mounted' = [mounted EXCEPT !.load = TRUE]
    /\ LET r == loadIdentity(storage) IN
       state' = IF r.ok
                THEN updateState(state,
                       [ identityId      |-> Some(r.uid),
                         identity        |-> Some(r.identity),
                         delegationChain |-> Some(r.chain),
                         isInitializing  |-> FALSE,
                         identityActor   |-> createAnonymousActor(props, Some(r.identity)) ])
                ELSE loadFailed(state, r.error)
    /\ UNCHANGED <<view, storage, loginPromiseHandlers, loginWithPublicKeyPromiseHandlers,
                   proc, promise, requests, props,
                   adapterCall, clientCall>>

\* useEffect(() => { createAnonymousActor ... }, [...]) (index.tsx lines 975-986)
CreateActorEffect ==
    /\ ~mounted.actor
    /\ lastCall' = 0
    /\ mounted' = [mounted EXCEPT !.actor = TRUE]
    /\ state' = updateState(state, [anonymousActor |-> createAnonymousActor(props, None)])
    /\ UNCHANGED <<view, storage, loginPromiseHandlers, loginWithPublicKeyPromiseHandlers,
                   proc, promise, requests, props,
                   adapterCall, clientCall>>

\* React re-renders: the closures handed to callers now read the committed
\* state.  The first render after mount follows the two mount effects, which
\* run in one flush.
Render ==
    /\ Mounted
    /\ view # Snapshot(state)
    /\ view' = Snapshot(state)
    /\ lastCall' = 0
    /\ UNCHANGED <<state, storage, loginPromiseHandlers, loginWithPublicKeyPromiseHandlers,
                   proc, promise, requests, mounted, props,
                   adapterCall, clientCall>>

\* The update of clear() as it would be if it left the identity fields alone.
ClearedFields_KeepsIdentity ==
    [ isInitializing     |-> FALSE,
      prepareLoginStatus |-> "idle",
      prepareLoginError  |-> None,
      loginStatus        |-> "idle",
      loginError         |-> None ]

\* The update of clear() as it would be if it left the error fields alone.
ClearedFields_KeepsErrors ==
    [ isInitializing     |-> FALSE,
      prepareLoginStatus |-> "idle",
      loginStatus        |-> "idle",
      identity           |-> None,
      identityId         |-> None,
      delegationChain    |-> None,
      identityActor      |-> None ]

\* The partial update clear() applies (index.tsx lines 928-938).
ClearedFields ==
    [ isInitializing     |-> FALSE,
      prepareLoginStatus |-> "idle",
      prepareLoginError  |-> None,
      loginStatus        |-> "idle",
      loginError         |-> None,
      identity           |-> None,
      identityId         |-> None,
      delegationChain    |-> None,
      identityActor      |-> None ]

\* clear() (index.tsx lines 927-940)
clear ==
    /\ Mounted
    /\ state' = updateState(state, ClearedFields)
    /\ storage' = clearIdentity
    /\ lastCall' = ClearCall
    /\ UNCHANGED <<view, loginPromiseHandlers, loginWithPublicKeyPromiseHandlers,
                   proc, promise, requests, mounted, props,
                   adapterCall, clientCall>>

----------------------------------------------------------------------------
(* login and loginWithSessionKey: the call, up to the first await *)

\* The guard as it would be if there were none.
prepareLoginRunning_Never(snapshot) == FALSE

\* The guard as it would be if it tested the wrong status value.
prepareLoginRunning_WrongStatus(snapshot) == snapshot.prepareLoginStatus = "error"

\* The in-flight guard: `state.prepareLoginStatus === "preparing"`, read from
\* the closure's snapshot (index.tsx lines 762 and 855).
prepareLoginRunning(snapshot) == snapshot.prepareLoginStatus = "preparing"

\* The two updates an accepted call applies before it awaits (lines 769-777).
startLogin(s) ==
    updateState(
        updateState(s, [loginStatus |-> "logging-in", loginError |-> None]),
        [prepareLoginStatus |-> "preparing", prepareLoginError |-> None])

\* login(loginUid) (index.tsx lines 747-786)
login(c, loginUid) ==
    /\ Mounted
    /\ NextCall(c)
    /\ lastCall' = c
    \* new Promise(...): the executor stores the new pair in the slot at once
    /\ loginPromiseHandlers' = Some(c)
    /\ LET created == [promise EXCEPT ![c] = PendingPromise] IN
       IF ~IsSome(view.anonymousActor)
       THEN LET r == rejectLoginWithError(state, created, loginPromiseHandlers',
                         loginWithPublicKeyPromiseHandlers, MsgNotInitialized, "") IN
            /\ state' = r.state
            /\ promise' = r.promise
            /\ proc' = [proc EXCEPT ![c] = [NoProc EXCEPT !.kind = "login", !.pc = "failed", !.guard = "noActor"]]
            /\ UNCHANGED requests
       ELSE IF prepareLoginRunning(view)
       THEN LET r == rejectLoginWithError(state, created, loginPromiseHandlers',
                         loginWithPublicKeyPromiseHandlers, MsgConcurrent, "") IN
            /\ state' = r.state
            /\ promise' = r.promise
            /\ proc' = [proc EXCEPT ![c] = [NoProc EXCEPT !.kind = "login", !.pc = "failed", !.guard = "concurrent"]]
            /\ UNCHANGED requests
       ELSE /\ state' = startLogin(state)
            /\ promise' = created
            /\ proc' = [proc EXCEPT ![c] = [NoProc EXCEPT !.kind = "login", !.pc = "prepare",
                                               !.guard = "accepted", !.loginUid = loginUid]]
            /\ requests' = requests \cup {callPrepareLoginRequest(c, loginUid)}
    /\ UNCHANGED <<view, storage, loginWithPublicKeyPromiseHandlers, mounted, props,
                   adapterCall, clientCall>>

\* loginWithSessionKey(sessionPublicKey, loginUid) (index.tsx lines 837-879)
loginWithSessionKey(c, sessionPublicKey, loginUid) ==
    /\ Mounted
    /\ NextCall(c)
    /\ lastCall' = c
    /\ loginWithPublicKeyPromiseHandlers' = Some(c)
    /\ LET created == [promise EXCEPT ![c] = PendingPromise] IN
       IF ~IsSome(view.anonymousActor)
       THEN LET r == rejectLoginWithError(state, created, loginPromiseHandlers,
                         loginWithPublicKeyPromiseHandlers', MsgNotInitialized, "") IN
            /\ state' = r.state
            /\ promise' = r.promise
            /\ proc' = [proc EXCEPT ![c] = [NoProc EXCEPT !.kind = "loginWithSessionKey", !.pc = "failed", !.guard = "noActor"]]
            /\ UNCHANGED requests
       ELSE IF prepareLoginRunning(view)
       THEN LET r == rejectLoginWithError(state, created, loginPromiseHandlers,
                         loginWithPublicKeyPromiseHandlers', MsgConcurrent, "") IN
            /\ state' = r.state
            /\ promise' = r.promise
            /\ proc' = [proc EXCEPT ![c] = [NoProc EXCEPT !.kind = "loginWithSessionKey", !.pc = "failed", !.guard = "concurrent"]]
            /\ UNCHANGED requests
       ELSE /\ state' = startLogin(state)
            /\ promise' = created
            /\ proc' = [proc EXCEPT ![c] = [NoProc EXCEPT !.kind = "loginWithSessionKey",
                                               !.pc = "prepare", !.guard = "accepted",
                                               !.loginUid = loginUid,
                                               !.sessionPublicKey = Some(sessionPublicKey)]]
            /\ requests' = requests \cup {callPrepareLoginRequest(c, loginUid)}
    /\ UNCHANGED <<view, storage, loginPromiseHandlers, mounted, props,
                   adapterCall, clientCall>>

----------------------------------------------------------------------------
(* login and loginWithSessionKey: the continuations *)

\* The catch block around callPrepareLogin (index.tsx lines 808-818, 901-911).
prepareCatch(s, p, loginSlot, publicKeySlot, error) ==
    rejectLoginWithError(
        updateState(s, [prepareLoginStatus |-> "error", prepareLoginError |-> Some(error)]),
        p, loginSlot, publicKeySlot, error, "")

\* The shape test as it would be if it kept the assertion of a pair and
\* dropped the token that came with it.
prepareShape_DropsAuthState(loginUid, resp) ==
    [ok |-> (IsSome(loginUid) /\ resp.tag = "string")
            \/ (resp.tag = "pair" /\ resp.authState # NoAuthState),
     webauthnResponse |-> Assertion, authenticationState |-> NoAuthState]

\* The shape test on callPrepareLogin's result (index.tsx lines 788-807).
\* `resp` is the authority's answer; the assertion has replaced its payload.
prepareShape(loginUid, resp) ==
    IF IsSome(loginUid) /\ resp.tag = "string"
    THEN [ok |-> TRUE, webauthnResponse |-> Assertion, authenticationState |-> NoAuthState]
    ELSE IF resp.tag = "pair" /\ resp.authState # NoAuthState
    THEN [ok |-> TRUE, webauthnResponse |-> Assertion, authenticationState |-> resp.authState]
    ELSE [ok |-> FALSE, webauthnResponse |-> "", authenticationState |-> NoAuthState]

\* The failure of an attempt inside the try block of login/loginWithSessionKey.
FailPrepare(c, error) ==
    LET r == prepareCatch(state, promise, loginPromiseHandlers,
                          loginWithPublicKeyPromiseHandlers, error) IN
    /\ state' = r.state
    /\ promise' = r.promise
    /\ proc' = [proc EXCEPT ![c] = Finished(c, "failed")]
    /\ requests' = Answered(c)

\* The authority answers siwp_prepare_login[_username] (part_004 lines 56-69):
\* a transport failure, a falsy non-array, a bare payload or a pair.
PrepareLoginResponse(c, tag, authState) ==
    /\ proc[c].pc = "prepare"
    /\ lastCall' = 0
    /\ IF tag = "throw"
       THEN FailPrepare(c, MsgTransport)
       ELSE IF tag = "empty"
       THEN FailPrepare(c, MsgInvalidPrepare)
       ELSE /\ proc' = [proc EXCEPT ![c].pc = "webauthn",
                                    ![c].prepareResponse = Some([tag |-> tag, authState |-> authState])]
            /\ requests' = Answered(c) \cup
                   {Request(c, "startAuthentication", None, None, None, None, None)}
            /\ UNCHANGED <<state, promise>>
    /\ UNCHANGED <<view, storage, loginPromiseHandlers, loginWithPublicKeyPromiseHandlers,
                   mounted, props,
                   adapterCall, clientCall>>

\* startAuthentication settles (part_004 lines 69-77); on success the shape
\* test runs and onWebauthnSettled starts, up to its await on callLogin
\* (index.tsx lines 788-825 and 605-650).
WebauthnSettled(c, ok) ==
    /\ proc[c].pc = "webauthn"
    /\ lastCall' = 0
    /\ LET shape == prepareShape(proc[c].loginUid, The(proc[c].prepareResponse)) IN
       IF ~ok
       THEN FailPrepare(c, MsgWebauthnFail)
       ELSE IF ~shape.ok
       THEN FailPrepare(c, MsgInvalidAuthResponse)
       ELSE LET custom == proc[c].kind = "loginWithSessionKey"
                sessionIdentity == generate(c)
                sessionPublicKey == IF custom THEN The(proc[c].sessionPublicKey)
                                    ELSE getPublicKey(sessionIdentity)
            IN
            /\ state' = updateState(state, [prepareLoginStatus |-> "success"])
            /\ proc' = [proc EXCEPT
                          ![c].pc = "callLogin",
                          ![c].webauthnResponse = shape.webauthnResponse,
                          ![c].authenticationState = shape.authenticationState,
                          ![c].sessionIdentity = IF custom THEN None ELSE Some(sessionIdentity),
                          ![c].sessionPublicKey = Some(sessionPublicKey)]
            /\ requests' = Answered(c) \cup
                   {callLoginRequest(c, shape.webauthnResponse, sessionPublicKey,
                                     shape.authenticationState, proc[c].loginUid)}
            /\ UNCHANGED promise
    /\ UNCHANGED <<view, storage, loginPromiseHandlers, loginWithPublicKeyPromiseHandlers,
                   mounted, props,
                   adapterCall, clientCall>>

----------------------------------------------------------------------------
(* onWebauthnSettled after callLogin, and getDelegation *)

BindingDelegationDeatils(username, expiration, user_canister_pubkey) ==
    [ username      |-> username,
      login_details |-> [expiration |-> expiration,
                         user_canister_pubkey |-> user_canister_pubkey] ]

\* onWebauthnSettled as it would be if it passed no message of its own, so
\* that rejectLoginWithError falls back on the message of the caught error.
callLoginFailureMessage_None(custom) == ""

\* The message onWebauthnSettled passes for a failed callLogin (lines 630, 652).
callLoginFailureMessage(custom) ==
    IF custom THEN MsgCustomKeyLogin ELSE MsgUnableToLogin

\* The authority answers siwp_login / siwp_login_username: a transport
\* failure, an Err envelope or Ok(BindingDetails) (part_004 lines 110-118,
\* index.tsx lines 619-661 and 674-698).
LoginResponse(c, tag, err, username, expiration, user_canister_pubkey) ==
    /\ proc[c].pc = "callLogin"
    /\ lastCall' = 0
    /\ LET custom == proc[c].kind = "loginWithSessionKey"
           loginOkResponse == BindingDelegationDeatils(username, expiration, user_canister_pubkey)
       IN
       IF tag # "Ok"
       THEN LET e == IF tag = "throw" THEN MsgTransport ELSE err
                r == rejectLoginWithError(state, promise, loginPromiseHandlers,
                         loginWithPublicKeyPromiseHandlers, e, callLoginFailureMessage(custom))
            IN
            /\ state' = r.state
            /\ promise' = r.promise
            /\ proc' = [proc EXCEPT ![c] = Finished(c, "failed")]
            /\ requests' = Answered(c)
       ELSE IF custom
       THEN /\ promise' = resolveHandlers(promise, loginWithPublicKeyPromiseHandlers,
                                          loginOkResponse)
            /\ proc' = [proc EXCEPT ![c] = Finished(c, "done")]
            /\ requests' = Answered(c)
            /\ UNCHANGED state
       ELSE /\ proc' = [proc EXCEPT ![c].pc = "callGetDelegation",
                                    ![c].loginOkResponse = Some(loginOkResponse)]
            /\ requests' = Answered(c) \cup
                   {callGetDelegationRequest(c, username, The(proc[c].sessionPublicKey),
                                             expiration)}
            /\ UNCHANGED <<state, promise>>
    /\ UNCHANGED <<view, storage, loginPromiseHandlers, loginWithPublicKeyPromiseHandlers,
                   mounted, props,
                   adapterCall, clientCall>>

\* getDelegation(identityId, sessionPublicKey, sessionIdentity, expiration,
\* user_canister_pubkey) called through the context (index.tsx lines 674-698
\* and 998): an async function, its own promise is what the caller holds.
getDelegation(c, identityId, sessionIdentity, expiration, user_canister_pubkey) ==
    /\ Mounted
    /\ NextCall(c)
    /\ lastCall' = c
    /\ IF ~IsSome(view.anonymousActor)
       THEN /\ promise' = [promise EXCEPT ![c] =
                              [status |-> "rejected", value |-> None, reason |-> MsgNotInitialized]]
            /\ proc' = [proc EXCEPT ![c] = [NoProc EXCEPT !.kind = "getDelegation",
                                               !.pc = "failed", !.guard = "noActor"]]
            /\ UNCHANGED requests
       ELSE /\ promise' = [promise EXCEPT ![c] = PendingPromise]
            /\ proc' = [proc EXCEPT ![c] =
                          [NoProc EXCEPT !.kind = "getDelegation", !.pc = "callGetDelegation",
                                         !.guard = "accepted",
                                         !.sessionIdentity = Some(sessionIdentity),
                                         !.sessionPublicKey = Some(getPublicKey(sessionIdentity)),
                                         !.loginOkResponse = Some(BindingDelegationDeatils(
                                             identityId, expiration, user_canister_pubkey))]]
            /\ requests' = requests \cup
                   {callGetDelegationRequest(c, identityId, getPublicKey(sessionIdentity),
                                             expiration)}
    /\ UNCHANGED <<state, view, storage, loginPromiseHandlers,
                   loginWithPublicKeyPromiseHandlers, mounted, props,
                   adapterCall, clientCall>>

\* The state update of a successful getDelegation as it would be if it left
\* identityId as it was.
delegatedState_KeepsIdentifier(s, identityId, identity, delegationChain) ==
    updateState(s,
        [ loginStatus     |-> "success",
          identity        |-> Some(identity),
          delegationChain |-> Some(delegationChain),
          identityActor   |-> createAnonymousActor(props, Some(identity)) ])

\* The state update of a successful getDelegation (index.tsx lines 720-732).
delegatedState(s, identityId, identity, delegationChain) ==
    updateState(s,
        [ loginStatus     |-> "success",
          identityId      |-> Some(identityId),
          identity        |-> Some(identity),
          delegationChain |-> Some(delegationChain),
          identityActor   |-> createAnonymousActor(props, Some(identity)) ])

\* The storage as it would be if the record were written before the answer
\* of the authority is looked at.
storageAfterDelegation_SaveFirst(ok, stored, identityId, sessionIdentity, delegationChain) ==
    saveIdentity(identityId, sessionIdentity, delegationChain)

\* What the storage holds after a step of getDelegation that got `ok` from
\* the authority (index.tsx line 717) or did not.
storageAfterDelegation(ok, stored, identityId, sessionIdentity, delegationChain) ==
    IF ok THEN saveIdentity(identityId, sessionIdentity, delegationChain) ELSE stored

\* The authority answers siwp_get_delegation: a transport failure, an Err
\* envelope or Ok(SignedDelegation) (part_004 lines 140-144, index.tsx lines
\* 699-737 and 662-667).
GetDelegationResponse(c, tag, pubkeyMatches) ==
    /\ proc[c].pc = "callGetDelegation"
    /\ lastCall' = 0
    /\ LET direct == proc[c].kind = "getDelegation"
           ok == tag = "Ok"
           details == The(proc[c].loginOkResponse)
           identityId == details.username
           sessionIdentity == The(proc[c].sessionIdentity)
           signedDelegation ==
               SignedDelegation(IF pubkeyMatches THEN The(proc[c].sessionPublicKey)
                                ELSE TamperedPublicKey,
                                details.login_details.expiration)
           delegationChain == createDelegationChain(signedDelegation,
                                  details.login_details.user_canister_pubkey)
           identity == fromDelegation(sessionIdentity, delegationChain)
           response == [identity |-> identity, username |-> identityId]
           r == rejectLoginWithError(state, promise, loginPromiseHandlers,
                    loginWithPublicKeyPromiseHandlers, MsgUnableToGetIdentity, "")
       IN
       /\ storage' = storageAfterDelegation(ok, storage, identityId, sessionIdentity,
                                            delegationChain)
       /\ proc' = [proc EXCEPT ![c] = Finished(c, IF ok THEN "done" ELSE "failed")]
       /\ requests' = Answered(c)
       /\ state' = IF ok THEN delegatedState(state, identityId, identity, delegationChain)
                   ELSE IF direct THEN state ELSE r.state
       /\ promise' =
            IF ok
            THEN IF direct
                 THEN [promise EXCEPT ![c] =
                         [status |-> "resolved", value |-> Some(response), reason |-> ""]]
                 ELSE resolveHandlers(promise, loginPromiseHandlers, response)
            ELSE IF direct
                 THEN [promise EXCEPT ![c] =
                         [status |-> "rejected", value |-> None,
                          reason |-> MsgUnableToGetIdentity]]
                 ELSE r.promise
    /\ UNCHANGED <<view, loginPromiseHandlers, loginWithPublicKeyPromiseHandlers,
                   mounted, props,
                   adapterCall, clientCall>>

----------------------------------------------------------------------------
(* Specification *)

LoginUidArgs == {None} \cup {Some(u) : u \in CallerUids}

Next ==
    \/ LoadIdentityEffect
    \/ CreateActorEffect
    \/ Render
    \/ clear
    \/ \E c \in Calls, loginUid \in LoginUidArgs : login(c, loginUid)
    \/ \E c \in Calls, loginUid \in LoginUidArgs :
          loginWithSessionKey(c, getPublicKey(ExternalSessionIdentity), loginUid)
    \/ \E c \in Calls, identityId \in Uids, expiration \in Expirations, pk \in RootKeys :
          getDelegation(c, identityId, ExternalSessionIdentity, expiration, pk)
    \/ \E c \in Calls, tag \in {"throw", "empty", "string"} :
          PrepareLoginResponse(c, tag, NoAuthState)
    \/ \E c \in Calls : PrepareLoginResponse(c, "pair", AuthStateOf(c))
    \/ \E c \in Calls : PrepareLoginResponse(c, "pair", NoAuthState)
    \/ \E c \in Calls, ok \in BOOLEAN : WebauthnSettled(c, ok)
    \/ \E c \in Calls : LoginResponse(c, "throw", "", "", 0, "")
    \/ \E c \in Calls, err \in ErrStrings : LoginResponse(c, "Err", err, "", 0, "")
    \/ \E c \in Calls, username \in Uids, expiration \in Expirations, pk \in RootKeys :
          LoginResponse(c, "Ok", "", username, expiration, pk)
    \/ \E c \in Calls, tag \in {"throw", "Err"} : GetDelegationResponse(c, tag, TRUE)
    \/ \E c \in Calls, pubkeyMatches \in BOOLEAN : GetDelegationResponse(c, "Ok", pubkeyMatches)

Spec == Init /\ [][Next]_vars

----------------------------------------------------------------------------
(* The storage adapter on its own: saveIdentity, loadIdentity and            *)
(* clearIdentity called directly, in any order, on any stored record.        *)

\* Arguments of saveIdentity: any string as uid, the empty one included.
AdapterUids == Uids \cup {""}
AdapterKeys == {StoredSessionIdentity, ExternalSessionIdentity, generate(1)}
AdapterChains ==
    { createDelegationChain(SignedDelegation(pubkey, expiration), pk) :
        pubkey \in {getPublicKey(k) : k \in AdapterKeys} \cup {TamperedPublicKey},
        expiration \in Expirations, pk \in RootKeys }

\* saveIdentity(uid, sessionIdentity, delegationChain) (state.type.ts lines 58-71)
saveIdentityCall(uid, sessionIdentity, delegationChain) ==
    /\ storage' = saveIdentity(uid, sessionIdentity, delegationChain)
    /\ adapterCall' = [ op |-> "saveIdentity", prev |-> adapterCall.op,
                        uid |-> uid, sessionIdentity |-> Some(sessionIdentity),
                        delegationChain |-> Some(delegationChain), loaded |-> None ]
    /\ UNCHANGED <<state, view, loginPromiseHandlers, loginWithPublicKeyPromiseHandlers,
                   proc, promise, requests, mounted, props, lastCall, clientCall>>

\* loadIdentity() (state.type.ts lines 34-53): returns, or throws.
loadIdentityCall ==
    /\ adapterCall' = [adapterCall EXCEPT !.op = "loadIdentity", !.prev = adapterCall.op,
                                          !.loaded = Some(loadIdentity(storage))]
    /\ UNCHANGED <<state, view, storage, loginPromiseHandlers,
                   loginWithPublicKeyPromiseHandlers, proc, promise, requests, mounted,
                   props, lastCall, clientCall>>

\* clearIdentity() (state.type.ts lines 76-78)
clearIdentityCall ==
    /\ storage' = clearIdentity
    /\ adapterCall' = [adapterCall EXCEPT !.op = "clearIdentity", !.prev = adapterCall.op,
                                          !.loaded = None]
    /\ UNCHANGED <<state, view, loginPromiseHandlers, loginWithPublicKeyPromiseHandlers,
                   proc, promise, requests, mounted, props, lastCall, clientCall>>

AdapterNext ==
    \/ \E uid \in AdapterUids, sessionIdentity \in AdapterKeys,
          delegationChain \in AdapterChains :
          saveIdentityCall(uid, sessionIdentity, delegationChain)
    \/ loadIdentityCall
    \/ clearIdentityCall

AdapterSpec == Init /\ [][AdapterNext]_vars

----------------------------------------------------------------------------
(* The authority client on its own: callPrepareLogin, callLogin and          *)
(* callGetDelegation called directly with any arguments, up to the request   *)
(* they send.                                                                *)

\* Arguments: the actor or none, any string or undefined as username (the
\* empty string included), a token or none as authenticationState.
ClientActors == {None, Some([identity |-> None])}
ClientUsernames == {None, Some(""), Some("alice"), Some("bob")}
ClientAuthStates == {NoAuthState} \cup {AuthStateOf(c) : c \in Calls}
ClientKeys == {getPublicKey(ExternalSessionIdentity), getPublicKey(generate(1))}

\* The record of a direct call.
ClientCalled(op, anonymousActor, username, authenticationState, sent, error) ==
    [ op |-> op, prev |-> clientCall.op, anonymousActor |-> anonymousActor,
      username |-> username, authenticationState |-> authenticationState,
      sent |-> sent, error |-> error ]

ClientFrame ==
    UNCHANGED <<state, view, storage, loginPromiseHandlers,
                loginWithPublicKeyPromiseHandlers, proc, promise, requests, mounted,
                props, lastCall, adapterCall>>

\* callPrepareLogin(anonymousActor, username) (part_004 lines 48-59)
callPrepareLoginCall(anonymousActor, username) ==
    /\ clientCall' =
          IF ~IsSome(anonymousActor)
          THEN ClientCalled("callPrepareLogin", anonymousActor, username, NoAuthState,
                            {}, MsgInvalidActor)
          ELSE ClientCalled("callPrepareLogin", anonymousActor, username, NoAuthState,
                            {callPrepareLoginRequest(0, username)}, "")
    /\ ClientFrame

\* callLogin(anonymousActor, webauthnResponse, sessionPublicKey,
\* authenticationState, username) (part_004 lines 83-109)
callLoginCall(anonymousActor, webauthnResponse, sessionPublicKey, authenticationState, username) ==
    /\ clientCall' =
          IF ~IsSome(anonymousActor)
          THEN ClientCalled("callLogin", anonymousActor, username, authenticationState,
                            {}, MsgInvalidActor)
          ELSE ClientCalled("callLogin", anonymousActor, username, authenticationState,
                            {callLoginRequest(0, webauthnResponse, sessionPublicKey,
                                              authenticationState, username)}, "")
    /\ ClientFrame

\* callGetDelegation(anonymousActor, username, sessionPublicKey, expiration)
\* (part_004 lines 124-138)
callGetDelegationCall(anonymousActor, username, sessionPublicKey, expiration) ==
    /\ clientCall' =
          IF ~IsSome(anonymousActor) \/ ~IsSome(username) \/ username = Some("")
          THEN ClientCalled("callGetDelegation", anonymousActor, username, NoAuthState,
                            {}, MsgInvalidActorOrUsername)
          ELSE ClientCalled("callGetDelegation", anonymousActor, username, NoAuthState,
                            {callGetDelegationRequest(0, The(username), sessionPublicKey,
                                                      expiration)}, "")
    /\ ClientFrame

ClientNext ==
    \/ \E anonymousActor \in ClientActors, username \in ClientUsernames :
          callPrepareLoginCall(anonymousActor, username)
    \/ \E anonymousActor \in ClientActors, sessionPublicKey \in ClientKeys,
          authenticationState \in ClientAuthStates, username \in ClientUsernames :
          callLoginCall(anonymousActor, Assertion, sessionPublicKey,
                        authenticationState, username)
    \/ \E anonymousActor \in ClientActors, username \in ClientUsernames,
          sessionPublicKey \in ClientKeys, expiration \in Expirations :
          callGetDelegationCall(anonymousActor, username, sessionPublicKey, expiration)

ClientSpec == Init /\ [][ClientNext]_vars

----------------------------------------------------------------------------
(* Steps, as seen from a pair of states *)

\* Call c is made in this step, as a call of the given kind.
CallStep(c, kind) == proc[c].kind = "none" /\ proc'[c].kind = kind

\* This step is a step of call c: its call, or one of its continuations.
StepOf(c) == proc'[c] # proc[c]

\* Call c, an accepted attempt, ends in this step.
EndsAs(c, pc) == InFlight(c) /\ proc'[c].pc = pc

\* This step is clear().
ClearStep ==
    /\ proc' = proc
    /\ state' = updateState(state, ClearedFields)
    /\ storage' = None

\* Call c has a request in flight.
HasRequest(reqs, c) == \E r \in reqs : r.call = c

----------------------------------------------------------------------------
----------------------------------------------------------------------------
(* C2: a login() call rejected by the guard does not alter the attempt in    *)
(* flight: it neither replaces nor settles the pending resolve/reject pair   *)
(* (the slot and every other promise are as before the call), and an attempt *)
(* that only ever had guard-rejected login() calls beside it has its promise *)
(* settled when it ends.                                                     *)
C2_RejectedCallLeavesAttempt ==
    /\ [][\A c \in Calls :
            (CallStep(c, "login") /\ proc'[c].guard = "concurrent")
            => /\ loginPromiseHandlers' = loginPromiseHandlers
               /\ \A d \in Calls \ {c} : promise'[d] = promise[d]]_vars
    /\ [](\A a \in Calls :
            ( /\ proc[a].kind = "login" /\ proc[a].guard = "accepted" /\ Terminated(a)
              /\ \A c \in Calls \ {a} :
                    \/ proc[c].kind = "none"
                    \/ proc[c].kind = "login" /\ proc[c].guard = "concurrent" )
            => promise[a].status # "pending")

(* C3: at most one login() attempt is in flight: a login() call made while   *)
(* an earlier login() attempt has not ended is rejected.  Stated for a call  *)
(* that reads the current state (its snapshot is not stale) while            *)
(* loginStatus still is "logging-in".                                        *)
C3_OneLoginInFlight ==
    [][\A c \in Calls :
          ( /\ CallStep(c, "login")
            /\ view = Snapshot(state)
            /\ state.loginStatus = "logging-in"
            /\ \E d \in Calls : proc[d].kind = "login" /\ InFlight(d) )
          => proc'[c].guard # "accepted"]_vars

(* C4: of two login() calls made one directly after the other, with no other *)
(* step and no render between them, the second is rejected when the first    *)
(* was accepted.                                                             *)
C4_NoRaceWindow ==
    [][\A c, d \in Calls :
          ( /\ CallStep(c, "login")
            /\ lastCall = d
            /\ proc[d].kind = "login" /\ proc[d].guard = "accepted" )
          => proc'[c].guard # "accepted"]_vars

(* C5: every failure of a login() call or attempt rejects the promise that   *)
(* call returned and sets loginStatus = "error" with loginError carrying the *)
(* message the promise was rejected with.                                    *)
C5_LoginFailureBothSignals ==
    [][\A c \in Calls :
          ( /\ proc'[c].kind = "login"
            /\ proc[c].pc # "failed" /\ proc'[c].pc = "failed" )
          => /\ promise'[c].status = "rejected"
             /\ state'.loginStatus = "error"
             /\ state'.loginError = Some(promise'[c].reason)]_vars

(* C6: every failure of a loginWithSessionKey() call or attempt rejects the  *)
(* promise that call returned and sets loginStatus = "error" with loginError *)
(* populated.                                                                *)
C6_SessionKeyFailureRejects ==
    [][\A c \in Calls :
          ( /\ proc'[c].kind = "loginWithSessionKey"
            /\ proc[c].pc # "failed" /\ proc'[c].pc = "failed" )
          => /\ promise'[c].status = "rejected"
             /\ state'.loginStatus = "error"
             /\ IsSome(state'.loginError)]_vars

(* C7: the two pending-outcome slots do not collide: no step of a            *)
(* loginWithSessionKey() call settles the promise of a login() call or       *)
(* replaces login's slot, and no step of a login() call settles the promise  *)
(* of a loginWithSessionKey() call or replaces that slot.                    *)
C7_SlotsDoNotCollide ==
    [][\A c \in Calls :
          /\ (StepOf(c) /\ proc'[c].kind = "loginWithSessionKey")
             => /\ loginPromiseHandlers' = loginPromiseHandlers
                /\ \A d \in Calls : proc[d].kind = "login" => promise'[d] = promise[d]
          /\ (StepOf(c) /\ proc'[c].kind = "login")
             => /\ loginWithPublicKeyPromiseHandlers' = loginWithPublicKeyPromiseHandlers
                /\ \A d \in Calls :
                      proc[d].kind = "loginWithSessionKey" => promise'[d] = promise[d]]_vars

(* C8: mutual exclusion is per kind: at most one login() attempt and at most *)
(* one loginWithSessionKey() attempt is in flight, and a call that reads the *)
(* current state is not rejected by the guard when no attempt of its own     *)
(* kind is in flight.                                                        *)
AttemptsInFlight(kind) == {c \in Calls : proc[c].kind = kind /\ InFlight(c)}
C8_ExclusionPerKind ==
    /\ [](\A kind \in {"login", "loginWithSessionKey"} :
            Cardinality(AttemptsInFlight(kind)) <= 1)
    /\ [][\A c \in Calls : \A kind \in {"login", "loginWithSessionKey"} :
            ( /\ CallStep(c, kind)
              /\ view = Snapshot(state)
              /\ AttemptsInFlight(kind) = {} )
            => proc'[c].guard # "concurrent"]_vars

(* C9: when a login() attempt gets Ok from fetchDelegation, the state has    *)
(* loginStatus = "success" and identityId = the username of BindingDetails,  *)
(* the stored record holds that username, and the promise that login() call  *)
(* returned is resolved with that username and the composed identity.        *)
C9_SuccessfulLoginOutcome ==
    [][\A c \in Calls :
          (proc[c].kind = "login" /\ EndsAs(c, "done"))
          => LET username == The(proc[c].loginOkResponse).username IN
             /\ state'.loginStatus = "success"
             /\ state'.identityId = Some(username)
             /\ IsSome(storage') /\ The(storage').uid = Some(username)
             /\ promise'[c].status = "resolved"
             /\ promise'[c].value = Some([identity |-> The(state'.identity),
                                          username |-> username])]_vars

----------------------------------------------------------------------------
(* C10 *)

\* The record a getDelegation that ends well in this step has written: the
\* identifier of its BindingDetails, its session keypair and the chain it built
\* (the one it puts into the state).
WritesOwnRecord(c) ==
    /\ EndsAs(c, "done")
    /\ IsSome(state'.delegationChain)
    /\ storage' = saveIdentity(The(proc[c].loginOkResponse).username,
                               The(proc[c].sessionIdentity),
                               The(state'.delegationChain))

(* C10 as stated: the stored record changes only in the step in which a      *)
(* login() attempt ends well, to that attempt's record, and in clear(), to   *)
(* absent.                                                                   *)
C10_StorageTwoWriters ==
    [][storage' # storage
          => \/ ClearStep
             \/ \E c \in Calls : proc[c].kind = "login" /\ WritesOwnRecord(c)]_vars

(* C10 amended: the stored record changes only in the step in which a        *)
(* getDelegation ends well - as the last step of a login() attempt or of a   *)
(* direct getDelegation() call - to that call's record, and in clear(), to   *)
(* absent.  A step in which an attempt fails, a loginWithSessionKey() step,  *)
(* a mount effect and a render leave it as it is.                            *)
C10_StorageWriters ==
    [][/\ storage' # storage
          => \/ ClearStep
             \/ \E c \in Calls :
                   proc[c].kind \in {"login", "getDelegation"} /\ WritesOwnRecord(c)
       /\ \A c \in Calls :
             (StepOf(c) /\ (proc'[c].pc = "failed" \/ proc'[c].kind = "loginWithSessionKey"))
             => storage' = storage]_vars

\* C10 witness: the record a direct getDelegation() call wrote is still there,
\* as that call wrote it, after a login() attempt has failed at its submit or
\* at its fetch.
C10_Witness ==
    /\ IsSome(storage)
    /\ The(storage).sessionIdentity = Some(keyToJSON(ExternalSessionIdentity))
    /\ The(storage).uid = state.identityId
    /\ state.loginStatus = "error"
    /\ state.loginError \in {Some(MsgUnableToLogin), Some(MsgUnableToGetIdentity)}
    /\ \E c, d \in Calls :
          /\ proc[c].kind = "login" /\ proc[c].guard = "accepted" /\ proc[c].pc = "failed"
          /\ proc[d].kind = "getDelegation" /\ proc[d].pc = "done"

----------------------------------------------------------------------------
(* C11: freshness.  When a login() attempt ends well, the session keypair of *)
(* the identity it composed is not the keypair of the identity that was in   *)
(* the state before (an earlier login's, or the restored one), nor of any    *)
(* identity an earlier login() promise was resolved with, nor the keypair    *)
(* held by any other attempt still in flight.                                *)
C11_FreshSessionKey ==
    [][\A c \in Calls :
          (proc[c].kind = "login" /\ EndsAs(c, "done"))
          => LET key == The(state'.identity).sessionIdentity IN
             /\ IsSome(state.identity) => The(state.identity).sessionIdentity # key
             /\ \A d \in Calls \ {c} :
                   /\ (proc[d].kind = "login" /\ promise[d].status = "resolved")
                         => The(promise[d].value).identity.sessionIdentity # key
                   /\ proc[d].sessionIdentity # Some(key)]_vars

\* C11 witness: two login() attempts have ended well, and the state holds an
\* identity.
C11_Witness ==
    /\ IsSome(state.identity)
    /\ \E c, d \in Calls :
          /\ c # d
          /\ proc[c].kind = "login" /\ proc[c].pc = "done"
          /\ proc[d].kind = "login" /\ proc[d].pc = "done"

----------------------------------------------------------------------------
\* The chain loaded has the public key of the chain saved and, delegation by
\* delegation, its signature and its public key.
SameChainFields(loaded, saved) ==
    /\ loaded.publicKey = saved.publicKey
    /\ Len(loaded.delegations) = Len(saved.delegations)
    /\ \A i \in DOMAIN saved.delegations :
          /\ loaded.delegations[i].signature = saved.delegations[i].signature
          /\ loaded.delegations[i].delegation.pubkey = saved.delegations[i].delegation.pubkey

\* loadIdentity, called right after saveIdentity, returned what was saved.
LoadedWhatWasSaved ==
    LET r == The(adapterCall.loaded) IN
    /\ r.ok
    /\ r.uid = adapterCall.uid
    /\ SameChainFields(r.chain, The(adapterCall.delegationChain))

C13_ClearThenLoad ==
    /\ (adapterCall.op = "loadIdentity" /\ adapterCall.prev = "clearIdentity")
       => /\ ~The(adapterCall.loaded).ok
          /\ The(adapterCall.loaded).error = MsgNoStoredIdentity
    /\ adapterCall.op = "clearIdentity" => storage = None

\* C13 witness: a record was saved, then cleared twice, then the load failed.
C13_Witness ==
    /\ adapterCall.op = "loadIdentity" /\ adapterCall.prev = "clearIdentity"
    /\ IsSome(adapterCall.sessionIdentity)
    /\ ~The(adapterCall.loaded).ok

----------------------------------------------------------------------------
(* C14: a signed delegation whose embedded public key differs from the       *)
(* session public key it was requested for makes the attempt fail: a login() *)
(* attempt ends well - identity composed, record stored, loginStatus =       *)
(* "success" - only with a chain whose delegation carries the session public *)
(* key of that attempt.                                                      *)
C14_MismatchedDelegationRejected ==
    [][\A c \in Calls :
          (proc[c].kind = "login" /\ proc[c].pc = "callGetDelegation"
             /\ (proc'[c].pc = "done" \/ state'.loginStatus = "success"
                   \/ storage' # storage \/ state'.identity # state.identity))
          => /\ IsSome(state'.delegationChain)
             /\ \A i \in DOMAIN The(state'.delegationChain).delegations :
                   The(state'.delegationChain).delegations[i].delegation.pubkey
                      = The(proc[c].sessionPublicKey)]_vars

----------------------------------------------------------------------------
\* What is stored cannot be loaded: nothing is stored, one of the three fields
\* is missing, or the key or the chain material cannot be deserialised.
Unloadable(stored) ==
    \/ ~IsSome(stored)
    \/ ~IsSome(The(stored).uid)
    \/ ~IsSome(The(stored).sessionIdentity)
    \/ ~IsSome(The(stored).delegationChain)
    \/ Len(The(The(stored).sessionIdentity)) # 2
    \/ The(The(stored).delegationChain).publicKey = NotHex

(* C15: when what is stored cannot be loaded, the load effect ends with      *)
(* isInitializing = FALSE, no identifier, identity, chain or identity-bound  *)
(* actor in the state, loginStatus and loginError as they were, and the      *)
(* storage as it was.                                                        *)
C15_LoadFailureRecovered ==
    [][(~mounted.load /\ mounted'.load /\ Unloadable(storage))
          => /\ ~state'.isInitializing
             /\ state'.identityId = None /\ state'.identity = None
             /\ state'.delegationChain = None /\ state'.identityActor = None
             /\ state'.loginStatus = state.loginStatus
             /\ state'.loginError = state.loginError
             /\ state'.prepareLoginStatus = state.prepareLoginStatus
             /\ storage' = storage]_vars

\* C15 witness: the load effect has run on a record that has its three fields
\* but cannot be deserialised, and no call has been made since.
C15_Witness ==
    /\ mounted.load
    /\ IsSome(storage)
    /\ IsSome(The(storage).uid) /\ IsSome(The(storage).sessionIdentity)
    /\ IsSome(The(storage).delegationChain)
    /\ Unloadable(storage)
    /\ ~state.isInitializing /\ state.identity = None /\ state.loginStatus = "idle"
    /\ \A c \in Calls : proc[c].kind = "none"

----------------------------------------------------------------------------
\* Call c was accepted by the guard as a login() or loginWithSessionKey() attempt.
IsAttempt(c) ==
    proc[c].kind \in {"login", "loginWithSessionKey"} /\ proc[c].guard = "accepted"

(* C16: the provider stays retryable after an error.  When an attempt fails  *)
(* and no other attempt is in flight, prepareLoginStatus is not left at      *)
(* "preparing" nor loginStatus at "logging-in"; and a login() call made      *)
(* (with the anonymous actor there) when an attempt has failed and no        *)
(* attempt is in flight is accepted by the guard.                            *)
C16_RetryableAfterError ==
    [][\A c \in Calls :
          /\ (IsAttempt(c) /\ EndsAs(c, "failed") /\ \A d \in Calls : ~InFlight(d)')
             => /\ state'.prepareLoginStatus # "preparing"
                /\ state'.loginStatus # "logging-in"
          /\ ( /\ CallStep(c, "login")
               /\ IsSome(view.anonymousActor)
               /\ \A d \in Calls : ~InFlight(d)
               /\ \E d \in Calls : IsAttempt(d) /\ proc[d].pc = "failed" )
             => proc'[c].guard = "accepted"]_vars

----------------------------------------------------------------------------
(* C17: a login() or loginWithSessionKey() call made while the rendered      *)
(* state holds no anonymous actor (not configured, or not yet created and    *)
(* rendered) fails at once: the promise it returns is rejected with the      *)
(* not-initialized error, loginStatus becomes "error" with that error in     *)
(* loginError, prepareLoginStatus stays as it was and no request is sent.    *)
C17_ChannelNotReady ==
    [][\A c \in Calls :
          ((CallStep(c, "login") \/ CallStep(c, "loginWithSessionKey"))
             /\ ~IsSome(view.anonymousActor))
          => /\ promise'[c].status = "rejected"
             /\ promise'[c].reason = MsgNotInitialized
             /\ state'.loginStatus = "error"
             /\ state'.loginError = Some(MsgNotInitialized)
             /\ state'.prepareLoginStatus = state.prepareLoginStatus
             /\ requests' = requests]_vars

----------------------------------------------------------------------------
(* C18: right after clear(), from whatever state it was called in, the state *)
(* has prepareLoginStatus = "idle", loginStatus = "idle", no errors, no      *)
(* identifier, identity, chain or identity-bound actor, and nothing is       *)
(* stored; the anonymous actor is the one that was there, in the state and   *)
(* in what the rendered closures read, so a login() call made right after    *)
(* clear() with the actor rendered is not rejected as not initialized.       *)
C18_ClearResets ==
    [][/\ lastCall' = ClearCall
          => /\ state'.prepareLoginStatus = "idle" /\ state'.prepareLoginError = None
             /\ state'.loginStatus = "idle" /\ state'.loginError = None
             /\ state'.identityId = None /\ state'.identity = None
             /\ state'.delegationChain = None /\ state'.identityActor = None
             /\ storage' = None
             /\ state'.anonymousActor = state.anonymousActor
             /\ view' = view
       /\ \A c \in Calls :
             (lastCall = ClearCall /\ CallStep(c, "login") /\ IsSome(state.anonymousActor)
                /\ view.anonymousActor = state.anonymousActor)
             => proc'[c].guard # "noActor"]_vars

\* C18 witness: clear() has just been called while an attempt was in flight, on
\* a state that holds the anonymous actor.
C18_Witness ==
    /\ lastCall = ClearCall
    /\ IsSome(state.anonymousActor)
    /\ state.loginStatus = "idle" /\ storage = None
    /\ \E c \in Calls : InFlight(c)

----------------------------------------------------------------------------
(* C19: no login() promise is dropped.  Once every collaborator call has     *)
(* returned or failed (no attempt is in flight any more), the promise of     *)
(* every login() call made is settled: resolved if the call ended well,      *)
(* rejected if it was rejected or its attempt failed.                        *)
C19_NoLoginPromiseDropped ==
    (\A d \in Calls : ~InFlight(d))
    => \A c \in Calls :
          proc[c].kind = "login"
          => /\ proc[c].pc = "done" => promise[c].status = "resolved"
             /\ proc[c].pc = "failed" => promise[c].status = "rejected"

----------------------------------------------------------------------------
\* The step in which the authority answers submit (siwp_login) of attempt c
\* with the envelope Err(err).
SubmitErr(c, err) == LoginResponse(c, "Err", err, "", 0, "")

\* The step in which the authority answers fetchDelegation
\* (siwp_get_delegation) of login attempt c with an Err envelope.
FetchDelegationErr(c) ==
    /\ proc[c].kind = "login"
    /\ GetDelegationResponse(c, "Err", TRUE)

\* Every promise the step settles is rejected with `message`.
SettledOnlyWith(message) ==
    \A d \in Calls :
        promise'[d] # promise[d]
        => promise'[d].status = "rejected" /\ promise'[d].reason = message

\* C20 (as written): when the authority answers submit or fetchDelegation
\* with an Err envelope, lastError and the error the attempt's promise is
\* rejected with carry exactly that Err string as their message.
C20_ErrSurfacedVerbatim ==
    [][\A c \in Calls :
          /\ \A err \in ErrStrings :
                SubmitErr(c, err)
                => /\ state'.loginError = Some(err)
                   /\ SettledOnlyWith(err)
          /\ FetchDelegationErr(c)
             => \E err \in ErrStrings :
                   /\ state'.loginError = Some(err)
                   /\ SettledOnlyWith(err)]_vars

\* C20 (amended): when the authority answers submit or fetchDelegation with
\* an Err envelope, the attempt fails with a fixed message, not the Err
\* string: lastError, and every promise rejected by that step, carry
\* "Unable to login." (login) or "Login error with customSessionPublicKey."
\* (loginWithSessionKey) for submit and "Unable to get identity." for
\* fetchDelegation, and loginStatus becomes "error".
C20_FixedMessages ==
    [][\A c \in Calls :
          /\ \A err \in ErrStrings :
                SubmitErr(c, err)
                => LET message == IF proc[c].kind = "loginWithSessionKey"
                                  THEN MsgCustomKeyLogin ELSE MsgUnableToLogin IN
                   /\ state'.loginStatus = "error"
                   /\ state'.loginError = Some(message)
                   /\ SettledOnlyWith(message)
                   /\ proc'[c].pc = "failed"
          /\ FetchDelegationErr(c)
             => /\ state'.loginStatus = "error"
                /\ state'.loginError = Some(MsgUnableToGetIdentity)
                /\ SettledOnlyWith(MsgUnableToGetIdentity)
                /\ proc'[c].pc = "failed"]_vars

\* One login attempt has failed at submit and a later one at fetchDelegation:
\* the first promise carries "Unable to login.", the second promise and
\* lastError carry "Unable to get identity.".
C20_Witness ==
    \E c, d \in Calls :
        /\ proc[c].kind = "login" /\ proc[c].pc = "failed"
        /\ promise[c].status = "rejected" /\ promise[c].reason = MsgUnableToLogin
        /\ proc[d].kind = "login" /\ proc[d].pc = "failed"
        /\ promise[d].status = "rejected" /\ promise[d].reason = MsgUnableToGetIdentity
        /\ state.loginStatus = "error"
        /\ state.loginError = Some(MsgUnableToGetIdentity)

----------------------------------------------------------------------------
\* The submit request of call c that is in flight.
SubmitRequests(c) ==
    {r \in requests : r.call = c /\ r.method \in {"siwp_login", "siwp_login_username"}}

\* C21: in discoverable mode (login() without an identifier) the submit
\* request of an attempt goes to the discoverable endpoint and carries the
\* AuthState token that the prepare of the same attempt returned, together
\* with the assertion; no submit request carries the token of another attempt.
C21_AuthStateEchoed ==
    /\ \A c \in Calls :
          (proc[c].kind = "login" /\ proc[c].pc = "callLogin" /\ ~IsSome(proc[c].loginUid))
          => /\ SubmitRequests(c) # {}
             /\ \A r \in SubmitRequests(c) :
                   /\ r.method = "siwp_login"
                   /\ r.authState = The(proc[c].prepareResponse).authState
                   /\ r.authState = AuthStateOf(c)
                   /\ r.webauthnResponse = Some(Assertion)
    /\ \A r \in requests :
          r.authState \in {None, AuthStateOf(r.call)}

\* Two discoverable login attempts have their submit requests in flight at
\* once, each with its own token.
C21_Witness ==
    \E c, d \in Calls :
        /\ c # d
        /\ proc[c].kind = "login" /\ proc[d].kind = "login"
        /\ ~IsSome(proc[c].loginUid) /\ ~IsSome(proc[d].loginUid)
        /\ \E r \in SubmitRequests(c) : r.authState = AuthStateOf(c)
        /\ \E r \in SubmitRequests(d) : r.authState = AuthStateOf(d)

----------------------------------------------------------------------------
\* The identity the state holds.
HeldIdentity(s) == <<s.identityId, s.identity, s.delegationChain>>

\* The authority answers submit of the loginWithSessionKey attempt c with
\* Ok(BindingDetails) in this step.
SessionKeySubmitOk(c, username, expiration, pk) ==
    /\ proc[c].kind = "loginWithSessionKey"
    /\ LoginResponse(c, "Ok", "", username, expiration, pk)

\* C22: loginWithSessionKey(sessionPublicKey, loginUid) skips the delegation
\* fetch and the identity composition.  Its submit request carries the
\* caller's session public key, it generates no session keypair and sends no
\* siwp_get_delegation request, none of its steps changes the stored record
\* or identityId/identity/delegationChain, and when the authority answers
\* submit with Ok the promise the call returned is resolved with the
\* BindingDetails of that answer.
C22_SessionKeySkipsDelegation ==
    /\ [](\A c \in Calls :
            proc[c].kind = "loginWithSessionKey"
            => /\ ~IsSome(proc[c].sessionIdentity)
               /\ proc[c].pc # "callGetDelegation"
               /\ \A r \in requests :
                     r.call = c
                     => /\ r.method # "siwp_get_delegation"
                        /\ r \in SubmitRequests(c)
                           => r.sessionPublicKey = Some(getPublicKey(ExternalSessionIdentity)))
    /\ [][\A c \in Calls :
            /\ (StepOf(c) /\ proc'[c].kind = "loginWithSessionKey")
               => /\ storage' = storage
                  /\ HeldIdentity(state') = HeldIdentity(state)
            /\ \A username \in Uids, expiration \in Expirations, pk \in RootKeys :
                  SessionKeySubmitOk(c, username, expiration, pk)
                  => /\ proc'[c].pc = "done"
                     /\ promise'[c].status = "resolved"
                     /\ promise'[c].value =
                           Some(BindingDelegationDeatils(username, expiration, pk))]_vars

----------------------------------------------------------------------------
\* The load effect runs in this step.
LoadStep == ~mounted.load /\ mounted'.load

\* The record a session of alice was saved as.
ValidRecord == saveIdentity("alice", StoredSessionIdentity, StoredChain)

\* The state update of a restore, given the channel it builds.
Restored(s, r, channel) ==
    updateState(s, [ identityId      |-> Some(r.uid),
                     identity        |-> Some(r.identity),
                     delegationChain |-> Some(r.chain),
                     isInitializing  |-> FALSE,
                     identityActor   |-> channel ])

\* The load effect runs once, before any API call, and leaves the record alone.
LoadsOnceAtStartup ==
    /\ [][mounted.load => mounted'.load]_vars
    /\ [][LoadStep => storage' = storage /\ \A c \in Calls : proc[c].kind = "none"]_vars

----------------------------------------------------------------------------
\* The actor effect runs in this step.
ActorStep == ~mounted.actor /\ mounted'.actor

\* The fields each of the two mount effects writes.
LoadFields == {"identityId", "identity", "delegationChain", "isInitializing", "identityActor"}
ActorFields == {"anonymousActor"}

\* What the storage restore and the actor construction make of a state.
AfterLoad(s) ==
    LET r == loadIdentity(storage) IN
    IF r.ok
    THEN Restored(s, r, IF props.configured THEN Some([identity |-> Some(r.identity)]) ELSE None)
    ELSE [s EXCEPT !.isInitializing = FALSE]
AfterActor(s) ==
    [s EXCEPT !.anonymousActor = IF props.configured THEN Some([identity |-> None]) ELSE None]

\* C24: the storage restore and the construction of the anonymous actor write
\* disjoint state fields and commute: each leaves every field outside its own
\* set as it was, and whichever runs second, the state after both is the
\* same, with the fields of both written.
C24_InitStepsCommute ==
    /\ LoadFields \cap ActorFields = {}
    /\ [][LoadStep => \A k \in DOMAIN state \ LoadFields : state'[k] = state[k]]_vars
    /\ [][ActorStep => \A k \in DOMAIN state \ ActorFields : state'[k] = state[k]]_vars
    /\ [][(~Mounted /\ Mounted')
            => /\ state' = AfterActor(AfterLoad(InitialState))
               /\ state' = AfterLoad(AfterActor(InitialState))]_vars

\* Both mount effects have just run on a stored record in a configured
\* provider: the restored identity and the anonymous actor are both there.
C24_Witness ==
    /\ Mounted
    /\ view = Snapshot(InitialState)
    /\ \A c \in Calls : proc[c].kind = "none"
    /\ lastCall = 0
    /\ state.identityId = Some("alice")
    /\ state.anonymousActor = Some([identity |-> None])
    /\ state.identityActor = Some([identity |-> state.identity])

----------------------------------------------------------------------------
\* The step leaves every state field outside `fields` as it was.
OnlyWrites(fields) == \A k \in DOMAIN state \ fields : state'[k] = state[k]

\* The field sets of the partial updates the provider applies.
LoginErrorFields == {"loginStatus", "loginError"}
PrepareFields == {"prepareLoginStatus", "prepareLoginError"}
DelegationFields == {"loginStatus", "identityId", "identity", "delegationChain", "identityActor"}

\* Call c, an accepted attempt at position pc, moves on or ends in this step.
From(c, pc) == proc[c].pc = pc /\ StepOf(c)

\* C25: every state mutation is a shallow merge applied as one step.  In each
\* step of the provider the fields named in its partial update(s) take their
\* new values together and every other field keeps its value; steps that
\* apply no update leave the state alone; and a render snapshot is always
\* taken of a state between steps, never of a half-applied update.
C25_ShallowMerge ==
    [][/\ LoadStep => OnlyWrites(LoadFields) /\ ~state'.isInitializing
       /\ ActorStep => OnlyWrites(ActorFields)
       /\ lastCall' = ClearCall
          => /\ OnlyWrites(DOMAIN ClearedFields)
             /\ \A k \in DOMAIN ClearedFields : state'[k] = ClearedFields[k]
       /\ view' # view => state' = state /\ view' = Snapshot(state)
       /\ \A c \in Calls :
             /\ CallStep(c, "getDelegation") => state' = state
             /\ (CallStep(c, "login") \/ CallStep(c, "loginWithSessionKey"))
                => IF proc'[c].guard = "accepted"
                   THEN /\ OnlyWrites(LoginErrorFields \cup PrepareFields)
                        /\ state'.loginStatus = "logging-in"
                        /\ state'.loginError = None
                        /\ state'.prepareLoginStatus = "preparing"
                        /\ state'.prepareLoginError = None
                   ELSE /\ OnlyWrites(LoginErrorFields)
                        /\ state'.loginStatus = "error"
                        /\ IsSome(state'.loginError)
             /\ (From(c, "prepare") /\ proc'[c].pc = "webauthn") => state' = state
             /\ ((From(c, "prepare") \/ From(c, "webauthn")) /\ proc'[c].pc = "failed")
                => /\ OnlyWrites(LoginErrorFields \cup PrepareFields)
                   /\ state'.prepareLoginStatus = "error"
                   /\ IsSome(state'.prepareLoginError)
                   /\ state'.loginStatus = "error"
                   /\ state'.loginError = state'.prepareLoginError
             /\ (From(c, "webauthn") /\ proc'[c].pc = "callLogin")
                => /\ OnlyWrites({"prepareLoginStatus"})
                   /\ state'.prepareLoginStatus = "success"
             /\ (From(c, "callLogin") /\ proc'[c].pc = "failed")
                => /\ OnlyWrites(LoginErrorFields)
                   /\ state'.loginStatus = "error"
                   /\ IsSome(state'.loginError)
             /\ (From(c, "callLogin") /\ proc'[c].pc # "failed") => state' = state
             /\ (From(c, "callGetDelegation") /\ proc'[c].pc = "done")
                => /\ OnlyWrites(DelegationFields)
                   /\ state'.loginStatus = "success"
                   /\ IsSome(state'.identityId)
                   /\ IsSome(state'.identity)
                   /\ state'.delegationChain = Some(The(state'.identity).delegationChain)
                   /\ state'.identityActor = createAnonymousActor(props, state'.identity)
             /\ (From(c, "callGetDelegation") /\ proc'[c].pc = "failed")
                => IF proc[c].kind = "getDelegation"
                   THEN state' = state
                   ELSE /\ OnlyWrites(LoginErrorFields)
                        /\ state'.loginStatus = "error"
                        /\ IsSome(state'.loginError)]_vars

\* A getDelegation call has succeeded after a login attempt failed at prepare:
\* the delegation fields are written, and the error fields, which its update
\* does not name, are still those of the failed attempt.
C25_Witness ==
    /\ \E c \in Calls : proc[c].kind = "getDelegation" /\ proc[c].pc = "done"
    /\ state.loginStatus = "success"
    /\ IsSome(state.identity)
    /\ state.prepareLoginStatus = "error"
    /\ IsSome(state.loginError)
    /\ state.loginError = state.prepareLoginError

----------------------------------------------------------------------------
\* The positions of a login() attempt, in the order of the protocol.
LoginOrder ==
    { <<"idle", "prepare">>, <<"prepare", "webauthn">>, <<"webauthn", "callLogin">>,
      <<"callLogin", "callGetDelegation">>, <<"callGetDelegation", "done">> }

\* The request a login() attempt has in flight at each position.
MethodsAt(pc) ==
    CASE pc = "prepare"           -> {"siwp_prepare_login", "siwp_prepare_login_username"}
      [] pc = "webauthn"          -> {"startAuthentication"}
      [] pc = "callLogin"         -> {"siwp_login", "siwp_login_username"}
      [] pc = "callGetDelegation" -> {"siwp_get_delegation"}
      [] OTHER                    -> {}

\* C26: within one login() attempt the steps happen strictly in order, none
\* skipped and none in parallel: prepare, the authenticator, submit,
\* fetchDelegation, then chain, identity, the write of the record and the
\* resolution of the promise.  An attempt moves one position at a time or
\* fails; it has exactly the request of its position in flight; its submit
\* request carries the assertion the authenticator returned; it writes the
\* record and sets loginStatus to "success" only in the step in which
\* fetchDelegation answered Ok; and its promise is not resolved before that
\* step.
C26_StepsInOrder ==
    /\ [](\A c \in Calls :
            proc[c].kind = "login"
            => /\ \A r \in requests : r.call = c => r.method \in MethodsAt(proc[c].pc)
               /\ InFlight(c) => Cardinality({r \in requests : r.call = c}) = 1
               /\ \A r \in SubmitRequests(c) : r.webauthnResponse = Some(Assertion)
               /\ promise[c].status = "resolved" => proc[c].pc = "done")
    /\ [][\A c \in Calls :
            (StepOf(c) /\ proc'[c].kind = "login" /\ proc'[c].guard = "accepted")
            => /\ \/ <<proc[c].pc, proc'[c].pc>> \in LoginOrder
                  \/ InFlight(c) /\ proc'[c].pc = "failed"
               /\ proc'[c].pc # "done"
                  => /\ storage' = storage
                     /\ state'.loginStatus = "success" => state.loginStatus = "success"
                     /\ promise'[c].status # "resolved"
               /\ proc'[c].pc = "done"
                  => /\ storage' = saveIdentity(The(state'.identityId),
                                      The(state'.identity).sessionIdentity,
                                      The(state'.delegationChain))
                     /\ state'.loginStatus = "success"]_vars

----------------------------------------------------------------------------
\* The three identity fields are empty, or all set with the identity built
\* on the chain that is held.
HeldWhole(s) ==
    \/ HeldIdentity(s) = <<None, None, None>>
    \/ /\ IsSome(s.identityId) /\ IsSome(s.identity) /\ IsSome(s.delegationChain)
       /\ The(s.identity).delegationChain = The(s.delegationChain)

\* The step replaces the held identity by the result of call c, whose
\* fetchDelegation answered Ok: the identifier of its BindingDetails and its
\* session key under the chain that is held.
ReplacedBy(c) ==
    /\ From(c, "callGetDelegation") /\ proc'[c].pc = "done"
    /\ LET details == The(proc[c].loginOkResponse) IN
       /\ state'.identityId = Some(details.username)
       /\ The(state'.identity).sessionIdentity = The(proc[c].sessionIdentity)
       /\ HeldWhole(state')

\* The step replaces the held identity by the stored record.
ReplacedByRecord ==
    /\ LoadStep
    /\ LET r == loadIdentity(storage) IN
       /\ r.ok
       /\ HeldIdentity(state') = <<Some(r.uid), Some(r.identity), Some(r.chain)>>

\* C27 (as written): the identity held in state is replaced wholesale.
\* identityId, identity and delegationChain are all empty or all set from one
\* source, and a step that changes any of them is the restore of the stored
\* record, the end of one successful login() attempt, or clear(), which
\* empties all three.
C27_ReplacedWholesale ==
    /\ [](HeldWhole(state))
    /\ [][HeldIdentity(state') # HeldIdentity(state)
            => \/ ReplacedByRecord
               \/ \E c \in Calls : proc[c].kind = "login" /\ ReplacedBy(c)
               \/ lastCall' = ClearCall /\ HeldIdentity(state') = <<None, None, None>>]_vars

\* C27 (amended): as above, with a third source: the end of a successful
\* getDelegation() call made through the context.
C27_ReplacedWholesaleBySource ==
    /\ [](HeldWhole(state))
    /\ [][HeldIdentity(state') # HeldIdentity(state)
            => \/ ReplacedByRecord
               \/ \E c \in Calls :
                     proc[c].kind \in {"login", "getDelegation"} /\ ReplacedBy(c)
               \/ lastCall' = ClearCall /\ HeldIdentity(state') = <<None, None, None>>]_vars
    /\ [][lastCall' = ClearCall => HeldIdentity(state') = <<None, None, None>>]_vars

\* Two login() attempts have succeeded: the held identity is whole and is
\* that of the second attempt.
C27_Witness ==
    /\ proc[1].kind = "login" /\ proc[1].pc = "done"
    /\ proc[2].kind = "login" /\ proc[2].pc = "done"
    /\ HeldWhole(state)
    /\ IsSome(state.identity)
    /\ The(state.identity).sessionIdentity = generate(2)

----------------------------------------------------------------------------
\* The siwp_get_delegation requests of call c.
DelegationRequests(reqs, c) ==
    {r \in reqs : r.call = c /\ r.method = "siwp_get_delegation"}

\* C28: within one login() attempt, siwp_get_delegation is called with the
\* identifier of the BindingDetails the authority returned (not the one the
\* caller passed), with the session public key that was sent on submit in
\* that attempt, and with the expiration of the BindingDetails; and the chain
\* the attempt ends with is rooted at the public key of the same
\* BindingDetails.
C28_DelegationArguments ==
    /\ [][\A c \in Calls :
            \A username \in Uids, expiration \in Expirations, pk \in RootKeys :
               (proc[c].kind = "login" /\ LoginResponse(c, "Ok", "", username, expiration, pk))
               => /\ DelegationRequests(requests', c) # {}
                  /\ \A rd \in DelegationRequests(requests', c) :
                        /\ rd.username = Some(username)
                        /\ rd.expiration = Some(expiration)
                        /\ \A rs \in SubmitRequests(c) :
                              rd.sessionPublicKey = rs.sessionPublicKey
                  /\ SubmitRequests(c) # {}]_vars
    /\ [][\A c \in Calls :
            (proc[c].kind = "login" /\ From(c, "callGetDelegation") /\ proc'[c].pc = "done")
            => /\ The(state'.delegationChain).publicKey =
                     The(proc[c].loginOkResponse).login_details.user_canister_pubkey
               /\ state'.identityId = Some(The(proc[c].loginOkResponse).username)]_vars

\* A login("alice") attempt is fetching the delegation for bob, the
\* identifier the authority resolved, with the key of its submit request.
C28_Witness ==
    \E c \in Calls :
        /\ proc[c].kind = "login"
        /\ proc[c].loginUid = Some("alice")
        /\ \E rd \in DelegationRequests(requests, c) :
              /\ rd.username = Some("bob")
              /\ rd.sessionPublicKey = Some(getPublicKey(generate(c)))
              /\ rd.expiration = Some(The(proc[c].loginOkResponse).login_details.expiration)

----------------------------------------------------------------------------
\* C29: callLogin picks the endpoint from exactly one of authenticationState
\* and username: siwp_login when a token is given and no username,
\* siwp_login_username when a username is given; a call that is given
\* neither fails without sending a request to the authority.
C29_EndpointChoice ==
    (clientCall.op = "callLogin" /\ IsSome(clientCall.anonymousActor))
    => LET hasUsername == IsSome(clientCall.username)
           hasAuthState == clientCall.authenticationState # NoAuthState
       IN
       /\ (hasAuthState /\ ~hasUsername)
          => /\ clientCall.sent # {}
             /\ \A r \in clientCall.sent :
                   r.method = "siwp_login" /\ r.authState = clientCall.authenticationState
       /\ hasUsername
          => /\ clientCall.sent # {}
             /\ \A r \in clientCall.sent : r.method = "siwp_login_username"
       /\ (~hasAuthState /\ ~hasUsername)
          => clientCall.sent = {} /\ clientCall.error # ""

----------------------------------------------------------------------------
\* The step in which login() attempt c finds that the prepare response has
\* neither expected shape: callPrepareLogin throws on a falsy answer, or the
\* shape test fails on what callPrepareLogin returned.
ShapeMismatch(c) ==
    /\ proc[c].kind = "login"
    /\ \/ PrepareLoginResponse(c, "empty", NoAuthState)
       \/ /\ WebauthnSettled(c, TRUE)
          /\ ~prepareShape(proc[c].loginUid, The(proc[c].prepareResponse)).ok

\* C30: if the prepare response matches neither expected shape, the login()
\* attempt fails: prepareLoginStatus and loginStatus become "error" with an
\* invalid-response error, the promise the call returned is rejected, and no
\* submit request is sent, then or later.
C30_InvalidShapeFails ==
    [][\A c \in Calls :
          ShapeMismatch(c)
          => /\ state'.prepareLoginStatus = "error"
             /\ state'.prepareLoginError \in
                   {Some(MsgInvalidPrepare), Some(MsgInvalidAuthResponse)}
             /\ state'.loginStatus = "error"
             /\ state'.loginError = state'.prepareLoginError
             /\ promise'[c].status = "rejected"
             /\ promise'[c].reason = The(state'.loginError)
             /\ proc'[c].pc = "failed"
             /\ SubmitRequests(c) = {}
             /\ ~HasRequest(requests', c)]_vars

----------------------------------------------------------------------------
\* The startAuthentication requests of call c.
AuthenticatorRequests(reqs, c) ==
    {r \in reqs : r.call = c /\ r.method = "startAuthentication"}

\* C31: the authenticator is invoked at most once per attempt and never
\* retried: a startAuthentication request of an attempt appears only in the
\* step in which its prepare request was answered.  When the authenticator
\* declines or fails, the attempt ends as a normal failure:
\* prepareLoginStatus and loginStatus become "error", the promise the call
\* returned is rejected, and the attempt sends no further request (no
\* submit, no fetchDelegation, no second startAuthentication).
C31_AuthenticatorOnceNoRetry ==
    [][\A c \in Calls :
          /\ AuthenticatorRequests(requests', c) \ AuthenticatorRequests(requests, c) # {}
             => /\ IsAttempt(c)
                /\ proc[c].pc = "prepare"
                /\ proc'[c].pc = "webauthn"
          /\ (IsAttempt(c) /\ WebauthnSettled(c, FALSE))
             => /\ state'.prepareLoginStatus = "error"
                /\ state'.prepareLoginError = Some(MsgWebauthnFail)
                /\ state'.loginStatus = "error"
                /\ state'.loginError = Some(MsgWebauthnFail)
                /\ promise'[c].status = "rejected"
                /\ promise'[c].reason = MsgWebauthnFail
                /\ proc'[c].pc = "failed"
                /\ ~HasRequest(requests', c)
          /\ (IsAttempt(c) /\ Terminated(c)) => ~HasRequest(requests', c)]_vars

----------------------------------------------------------------------------
\* The stored record is that of the identity the state holds: the same
\* identifier, the session key of the held identity, the held chain.
RecordOfHeld(s, stored) ==
    /\ IsSome(stored)
    /\ The(stored).uid = s.identityId
    /\ The(stored).sessionIdentity = Some(keyToJSON(The(s.identity).sessionIdentity))
    /\ The(stored).delegationChain = Some(chainToJSON(The(s.delegationChain)))

\* C32: state and storage agree.  In every reachable state in which
\* identityId/identity are populated the stored record is there and holds
\* the same identifier (and the key and chain of the held identity).  The
\* record is written in the very step that puts the identity into the state,
\* and removed in the very step of clear() that empties it: no step changes
\* one without the other agreeing afterwards.
C32_StateAndStorageAgree ==
    /\ []((IsSome(state.identityId) \/ IsSome(state.identity)) => RecordOfHeld(state, storage))
    /\ [][storage' # storage
            => IF IsSome(storage')
               THEN /\ RecordOfHeld(state', storage')
                    /\ state'.loginStatus = "success"
               ELSE /\ lastCall' = ClearCall
                    /\ HeldIdentity(state') = <<None, None, None>>]_vars
    /\ [][lastCall' = ClearCall
            => storage' = None /\ HeldIdentity(state') = <<None, None, None>>]_vars

\* A login() attempt has succeeded for bob: state and record both hold bob
\* with the session key of that attempt, in place of what was stored before.
C32_Witness ==
    \E c \in Calls :
        /\ proc[c].kind = "login" /\ proc[c].pc = "done"
        /\ state.identityId = Some("bob")
        /\ The(state.identity).sessionIdentity = generate(c)
        /\ RecordOfHeld(state, storage)
        /\ storage # ValidRecord

----------------------------------------------------------------------------
\* Call c has ended and the promise it returned is settled.
Settled(c) == Terminated(c) /\ promise[c].status \in {"resolved", "rejected"}

\* C33: loginStatus is "logging-in" only while some attempt is in flight.
\* Whenever every login() and loginWithSessionKey() call made so far has
\* ended with its promise settled, loginStatus is idle, success or error,
\* also after a successful loginWithSessionKey() attempt.
C33_LoggingInOnlyInFlight ==
    (\A c \in Calls :
        proc[c].kind \in {"login", "loginWithSessionKey"} => Settled(c))
    => state.loginStatus \in {"idle", "success", "error"}

----------------------------------------------------------------------------
\* The identity fields and the channel bound to the identity.
IdentityFields == {"identityId", "identity", "delegationChain", "identityActor"}

\* C34: a failed login attempt changes only status and error fields.  No
\* step of a login() call other than its successful end touches identityId,
\* identity, delegationChain or identityActor (nor any field besides the
\* status and error fields), and the step in which it fails leaves
\* loginStatus = "error" with an error, next to the identity held before.
C34_FailureKeepsIdentity ==
    [][\A c \in Calls :
          (StepOf(c) /\ proc'[c].kind = "login" /\ proc'[c].pc # "done")
          => /\ \A k \in IdentityFields : state'[k] = state[k]
             /\ OnlyWrites(LoginErrorFields \cup PrepareFields)
             /\ proc'[c].pc = "failed"
                => /\ state'.loginStatus = "error"
                   /\ IsSome(state'.loginError)]_vars

\* An accepted login() attempt has failed while the identity restored at
\* startup is held: loginStatus is "error" and the restored identity and its
\* channel are still there.
C34_Witness ==
    /\ \E c \in Calls :
          proc[c].kind = "login" /\ proc[c].pc = "failed" /\ proc[c].guard = "accepted"
    /\ \A c \in Calls : ~(proc[c].pc = "done")
    /\ state.loginStatus = "error"
    /\ IsSome(state.loginError)
    /\ state.identityId = Some("alice")
    /\ state.identity = Some(fromDelegation(StoredSessionIdentity, StoredChain))
    /\ state.delegationChain = Some(StoredChain)
    /\ state.identityActor = Some([identity |-> state.identity])

----------------------------------------------------------------------------
\* A login() attempt is preparing although the state says prepareLoginStatus
\* is "idle": clear() has run since the attempt started.
PreparingAfterClear ==
    /\ state.prepareLoginStatus = "idle"
    /\ \E d \in Calls : proc[d].kind = "login" /\ proc[d].pc \in {"prepare", "webauthn"}

\* clear() cancels nothing, and an attempt that ends well after it still
\* logs the user in: loginStatus = "success", the identity fields and the
\* record are those of the attempt.
ClearCancelsNothing ==
    /\ [][lastCall' = ClearCall
            => proc' = proc /\ requests' = requests /\ promise' = promise]_vars
    /\ [][\A c \in Calls :
            (proc[c].kind = "login" /\ From(c, "callGetDelegation") /\ proc'[c].pc = "done")
            => /\ state'.loginStatus = "success"
               /\ state'.identityId = Some(The(proc[c].loginOkResponse).username)
               /\ The(state'.identity).sessionIdentity = The(proc[c].sessionIdentity)
               /\ HeldWhole(state')
               /\ RecordOfHeld(state', storage')]_vars

====
